---- MODULE Spec2Model ----
(***************************************************************************)
(* A model of the USDT analytics dashboard: the metrics client and the     *)
(* normalizer of data_utils.py, the number formatter, and the reactive     *)
(* dashboard of app.py (wallet lookups, the user table, the views).        *)
(*                                                                         *)
(* Values are tagged records, so that a text, a number, a missing value    *)
(* and an instant are never confused: a text is a sequence of characters   *)
(* and is parsed character by character.                                   *)
(***************************************************************************)
EXTENDS Integers, Sequences, FiniteSets, TLC

VARIABLES
    fn,          \* the data_utils function last applied ("none" before a call)
    arg,         \* the argument it was applied to
    ret,         \* what the call produced: a value, or the exception it raised
    daily_df,    \* app.py: the global table, loaded at start-up
    user_data,   \* app.py: the reactive value holding the user table
    inbox,       \* lookups clicked by the user and not yet handled (FIFO)
    inflight,    \* the runs of update_user_data waiting for their HTTP response
    initiated,   \* history: the addresses of the lookups, in click order
    loaded,      \* history: the lookup whose result user_data holds
    shown,       \* what each user output displays
    invalidated, \* the outputs invalidated and not yet re-rendered
    exported,    \* the content of the last CSV download of each table
    notices,     \* the notifications shown, in order
    input,       \* the metric and window inputs of the session
    overlapped,  \* history: a lookup was clicked while another one was running
    deploy       \* deploy_arweave.py: the run of the deployment script

pureVars == <<fn, arg, ret>>
dashVars == <<daily_df, user_data, inbox, inflight, initiated, loaded, shown,
              invalidated, exported, notices, input, overlapped>>
deployVars == <<deploy>>
vars == <<fn, arg, ret, daily_df, user_data, inbox, inflight, initiated, loaded,
          shown, invalidated, exported, notices, input, overlapped, deploy>>

(***************************************************************************)
(* Bounds of the model.                                                    *)
(***************************************************************************)
MaxRows == 2
MaxLookups == 2

(***************************************************************************)
(* Values.                                                                 *)
(***************************************************************************)
Num(n) == [t |-> "num", n |-> n]
NaN == [t |-> "nan"]
Null == [t |-> "null"]
Str(s) == [t |-> "str", s |-> s]
Bool(b) == [t |-> "bool", b |-> b]
\* An int64 quantity m * 10^(9*e): the exponent keeps nanosecond counts exact.
Big(m, e) == [t |-> "int", m |-> m, e |-> IF m = 0 THEN 0 ELSE e]
\* A datetime64[ns] instant, as its count of seconds since the epoch.
Datetime(m, e) == [t |-> "datetime", m |-> m, e |-> IF m = 0 THEN 0 ELSE e]
Obj(address, balance) == [t |-> "obj", address |-> address, balance |-> balance]

IsNum(v) == v.t = "num"
IsStr(v) == v.t = "str"
IsDatetime(v) == v.t = "datetime"

DigitChars == <<"0", "1", "2", "3", "4", "5", "6", "7", "8", "9">>
IsDigit(c) == \E i \in 1..10 : DigitChars[i] = c
DigitValue(c) == (CHOOSE i \in 1..10 : DigitChars[i] = c) - 1
AllDigits(s) == Len(s) > 0 /\ \A i \in 1..Len(s) : IsDigit(s[i])

RECURSIVE ParseDigits(_)
ParseDigits(s) ==
    IF Len(s) = 0 THEN 0
    ELSE 10 * ParseDigits(SubSeq(s, 1, Len(s) - 1)) + DigitValue(s[Len(s)])

\* int(x), float(x), pd.to_numeric(x): a text parses when it is a decimal numeral,
\* with an optional leading minus sign.
IsNumeral(s) ==
    \/ AllDigits(s)
    \/ Len(s) > 1 /\ s[1] = "-" /\ AllDigits(Tail(s))
ParseNumeral(s) == IF s[1] = "-" THEN 0 - ParseDigits(Tail(s)) ELSE ParseDigits(s)

(***************************************************************************)
(* Outcomes of a call: a returned value, or a raised exception.            *)
(***************************************************************************)
Returned(v) == [kind |-> "returned", value |-> v]
Raised(e) == [kind |-> "raised", exc |-> e]
NoCall == [kind |-> "none"]

(***************************************************************************)
(* Tables (pandas DataFrames): the column labels in order and the rows.    *)
(***************************************************************************)
Table(cols, rows) == [cols |-> cols, rows |-> rows]
EmptyTable == Table(<<>>, <<>>)
IsEmpty(df) == Len(df.rows) = 0 \/ Len(df.cols) = 0
ColSet(df) == {df.cols[i] : i \in 1..Len(df.cols)}
HasCol(df, c) == c \in ColSet(df)
NRows(df) == Len(df.rows)

\* df[c] = df[c].apply(F): column c created or overwritten, the others kept.
SetCol(df, c, F(_)) ==
    Table(IF HasCol(df, c) THEN df.cols ELSE Append(df.cols, c),
          [i \in 1..Len(df.rows) |->
              [k \in DOMAIN df.rows[i] \cup {c} |->
                  IF k = c THEN F(df.rows[i]) ELSE df.rows[i][k]]])

\* The drop left out: the column stays.
DropCol_kept(df, c) == df
\* df.drop(c, axis=1)
DropCol(df, c) ==
    Table(SelectSeq(df.cols, LAMBDA k : k # c),
          [i \in 1..Len(df.rows) |->
              [k \in DOMAIN df.rows[i] \ {c} |-> df.rows[i][k]]])

\* pd.DataFrame(records): the columns are the keys of the records.
DataFrame(cols, records) == IF Len(records) = 0 THEN EmptyTable ELSE Table(cols, records)

(***************************************************************************)
(* Conversions of pandas, as data_utils.py uses them.                      *)
(***************************************************************************)
\* floor((2^63 - 1) / 10^18): the largest count of 10^9-second units that a
\* datetime64[ns] holds.
MaxGigaSeconds == 9
SecondsPerHour == 3600
SecondsPerDay == 86400

\* x.astype(int), cell by cell: a numeral or a number gives the integer, an
\* instant gives its count of nanoseconds, anything else raises.
CanAsInt(v) ==
    \/ v.t = "str" /\ IsNumeral(v.s)
    \/ v.t = "num"
    \/ v.t = "int"
    \/ v.t = "datetime"
AsInt(v) ==
    CASE v.t = "str" -> Big(ParseNumeral(v.s), 0)
      [] v.t = "num" -> Big(v.n, 0)
      [] v.t = "int" -> v
      [] v.t = "datetime" -> Big(v.m, v.e + 1)

\* pd.to_datetime(x, unit='s'): the integer counts seconds; the instant must fit
\* in 64 bits of nanoseconds.
InDatetimeRange(i) == i.e = 0 \/ (i.e = 1 /\ i.m <= MaxGigaSeconds /\ i.m >= 0 - MaxGigaSeconds)
FromEpochSeconds(i) == Datetime(i.m, i.e)

\* pd.to_datetime(x) of a date text "YYYY-MM-DD" (the model's dates are days of
\* January 1970), or of an instant, which it returns as it is.
IsDateText(s) ==
    /\ Len(s) = 10
    /\ s[5] = "-" /\ s[8] = "-"
    /\ \A i \in {1, 2, 3, 4, 6, 7, 9, 10} : IsDigit(s[i])
    /\ SubSeq(s, 1, 4) = <<"1", "9", "7", "0">>
    /\ SubSeq(s, 6, 7) = <<"0", "1">>
    /\ ParseDigits(SubSeq(s, 9, 10)) \in 1..31
CanToDatetime(v) == (v.t = "str" /\ IsDateText(v.s)) \/ v.t = "datetime"
ToDatetime(v) ==
    IF v.t = "datetime" THEN v
    ELSE Datetime((ParseDigits(SubSeq(v.s, 9, 10)) - 1) * SecondsPerDay, 0)

\* pd.to_numeric(x, errors='coerce'): what does not parse becomes missing.
ToNumericCoerce(v) ==
    CASE v.t = "str" -> IF IsNumeral(v.s) THEN Num(ParseNumeral(v.s)) ELSE NaN
      [] v.t = "num" -> v
      [] v.t = "bool" -> Num(IF v.b THEN 1 ELSE 0)
      [] OTHER -> NaN

\* float(x): a numeral or a number converts, another text raises ValueError, a
\* null raises TypeError.
CanFloat(v) == (v.t = "str" /\ IsNumeral(v.s)) \/ v.t = "num"
Float(v) == IF v.t = "num" THEN v ELSE Num(ParseNumeral(v.s))
FloatError(v) == IF v.t = "str" THEN "ValueError" ELSE "TypeError"

\* x.astype(bool): Python's truth value.
AsBool(v) ==
    CASE v.t = "bool" -> v
      [] v.t = "str" -> Bool(Len(v.s) > 0)
      [] v.t = "num" -> Bool(v.n # 0)
      [] v.t = "null" -> Bool(FALSE)
      [] OTHER -> Bool(TRUE)

\* The order of instants (the model's second counts stay below 10^9).
DatetimeLeq(a, b) == a.e < b.e \/ (a.e = b.e /\ a.m <= b.m)

\* df.sort_values(c): ascending, rows with equal keys keep their order.
RECURSIVE InsertSorted(_, _, _)
InsertSorted(sorted, row, c) ==
    IF Len(sorted) = 0 THEN <<row>>
    ELSE IF DatetimeLeq(sorted[Len(sorted)][c], row[c]) THEN Append(sorted, row)
    ELSE Append(InsertSorted(SubSeq(sorted, 1, Len(sorted) - 1), row, c),
                sorted[Len(sorted)])
RECURSIVE SortRows(_, _)
SortRows(rows, c) ==
    IF Len(rows) = 0 THEN <<>>
    ELSE InsertSorted(SortRows(SubSeq(rows, 1, Len(rows) - 1), c), rows[Len(rows)], c)
\* The sorted copy computed and thrown away: the frame is returned in its old order.
sort_values_discarded(df, c) == df
sort_values(df, c) == Table(df.cols, SortRows(df.rows, c))

(***************************************************************************)
(* data_utils.py: the normalizer.                                          *)
(***************************************************************************)
daily_numeric_cols ==
    <<"activeAccounts", "averageTransferAmount", "blacklistedAccounts", "fee",
      "minTransferAmount", "maxTransferAmount", "newAccounts", "totalFees",
      "totalTransferValue", "totalTransfers", "transferCount", "uniqueReceivers",
      "uniqueSenders", "volume">>
user_numeric_cols ==
    <<"endDayBalance", "totalReceived", "totalTransferred", "transferCount",
      "averageTransferAmount", "distinctReceivers", "distinctSenders", "feesPaid",
      "maxTransferAmount", "receivedCount">>

\* for col in numeric_cols: df[col] = pd.to_numeric(df[col], errors='coerce')
RECURSIVE CoerceNumeric(_, _)
CoerceNumeric(df, cols) ==
    IF Len(cols) = 0 THEN df
    ELSE CoerceNumeric(SetCol(df, Head(cols), LAMBDA r : ToNumericCoerce(r[Head(cols)])),
                       Tail(cols))

AllCells(df, c, P(_)) == \A i \in 1..Len(df.rows) : P(df.rows[i][c])
FirstBad(df, c, P(_)) == df.rows[CHOOSE i \in 1..Len(df.rows) :
                                    /\ ~P(df.rows[i][c])
                                    /\ \A j \in 1..(i - 1) : P(df.rows[j][c])][c]

\* df['timestamp'] = pd.to_datetime(df['timestamp'].astype(int), unit='s')
TimestampOutcome(df) ==
    IF ~HasCol(df, "timestamp") THEN Raised("KeyError")
    ELSE IF ~AllCells(df, "timestamp", CanAsInt) THEN Raised("ValueError")
    ELSE IF ~AllCells(df, "timestamp", LAMBDA v : InDatetimeRange(AsInt(v)))
        THEN Raised("OutOfBoundsDatetime")
    ELSE Returned(SetCol(df, "timestamp", LAMBDA r : FromEpochSeconds(AsInt(r["timestamp"]))))

process_daily_metrics(df) ==
    IF IsEmpty(df) THEN Returned(df)
    ELSE LET stamped == TimestampOutcome(df) IN
         IF stamped.kind = "raised" THEN stamped
         ELSE LET numeric == CoerceNumeric(stamped.value, daily_numeric_cols)
                  dec == SetCol(numeric, "hasFeeDecrease", LAMBDA r : AsBool(r["hasFeeDecrease"]))
                  inc == SetCol(dec, "hasFeeIncrease", LAMBDA r : AsBool(r["hasFeeIncrease"]))
              IN Returned(sort_values(inc, "timestamp"))

process_user_metrics(df) ==
    IF IsEmpty(df) THEN Returned(df)
    ELSE IF ~HasCol(df, "user") THEN Raised("KeyError")
    ELSE IF ~AllCells(df, "user", LAMBDA u : CanFloat(u.balance))
        THEN Raised(FloatError(FirstBad(df, "user", LAMBDA u : CanFloat(u.balance)).balance))
    ELSE LET addr == SetCol(df, "user_address", LAMBDA r : r["user"].address)
             bal == SetCol(addr, "user_balance", LAMBDA r : Float(r["user"].balance))
             flat == DropCol(bal, "user")
             stamped == TimestampOutcome(flat)
         IN IF stamped.kind = "raised" THEN stamped
            ELSE IF ~AllCells(stamped.value, "date", CanToDatetime) THEN Raised("ValueError")
            ELSE LET dated == SetCol(stamped.value, "date", LAMBDA r : ToDatetime(r["date"]))
                     numeric == CoerceNumeric(dated, user_numeric_cols)
                 IN Returned(sort_values(numeric, "date"))

(***************************************************************************)
(* Texts of numbers.                                                       *)
(***************************************************************************)
RECURSIVE ToText(_)
ToText(n) ==
    IF n < 10 THEN <<DigitChars[n + 1]>>
    ELSE Append(ToText(n \div 10), DigitChars[(n % 10) + 1])

(***************************************************************************)
(* The raw rows the indexing service returns.  Every field arrives as JSON  *)
(* text (GraphQL BigInt and BigDecimal), a boolean, or the nested user      *)
(* object.  One numeric field and the wallet balance range over well-formed *)
(* and malformed values; the other numeric fields hold "1".                 *)
(***************************************************************************)
daily_query_fields ==
    <<"activeAccounts", "averageTransferAmount", "blacklistedAccounts", "fee",
      "hasFeeDecrease", "hasFeeIncrease", "id", "minTransferAmount",
      "maxTransferAmount", "newAccounts", "timestamp", "totalFees",
      "totalTransferValue", "totalTransfers", "transferCount", "uniqueReceivers",
      "uniqueSenders", "volume">>
user_query_fields ==
    <<"timestamp", "date", "endDayBalance", "totalReceived", "totalTransferred",
      "transferCount", "averageTransferAmount", "distinctReceivers",
      "distinctSenders", "feesPaid", "maxTransferAmount", "receivedCount", "user">>
SeqRange(s) == {s[i] : i \in 1..Len(s)}

\* Second counts: the epoch, a few seconds after it, and the second day at 01:00.
TimestampValues == {0, 7, 90000}
RawNumbers == {Str(<<"1", "2">>), Str(<<"a", "b", "c">>), Null}
RawBalances == {Str(<<"5", "0">>), Str(<<"a", "b", "c">>), Null}
DateText(day) == <<"1", "9", "7", "0", "-", "0", "1", "-", "0", DigitChars[day + 1]>>
RawDates == {Str(DateText(1)), Str(DateText(2))}
Addresses == {<<"0", "x", "a">>, <<"0", "x", "b">>}

RawDailyRow(ts, v, b) ==
    [k \in SeqRange(daily_query_fields) |->
        CASE k = "timestamp" -> Str(ToText(ts))
          [] k = "id" -> Str(ToText(ts))
          [] k = "hasFeeDecrease" -> Bool(FALSE)
          [] k = "hasFeeIncrease" -> Bool(b)
          [] k = "volume" -> v
          [] OTHER -> Str(<<"1">>)]
RawUserRow(a, ts, d, bal, v) ==
    [k \in SeqRange(user_query_fields) |->
        CASE k = "timestamp" -> Str(ToText(ts))
          [] k = "date" -> d
          [] k = "user" -> Obj(Str(a), bal)
          [] k = "transferCount" -> v
          [] OTHER -> Str(<<"1">>)]

RawDailyRows == {RawDailyRow(ts, v, b) : ts \in TimestampValues, v \in RawNumbers, b \in BOOLEAN}
RawUserRows ==
    {RawUserRow(<<"0", "x", "a">>, ts, d, bal, v) :
        ts \in {0, 90000}, d \in RawDates, bal \in RawBalances,
        v \in {Str(<<"1", "2">>), Str(<<"a", "b", "c">>)}}
SeqsUpTo(S, n) == UNION {[1..k -> S] : k \in 0..n}
RawDailyTables == {DataFrame(daily_query_fields, rows) : rows \in SeqsUpTo(RawDailyRows, MaxRows)}
RawUserTables == {DataFrame(user_query_fields, rows) : rows \in SeqsUpTo(RawUserRows, MaxRows)}

(***************************************************************************)
(* The dashboard's state while a data_utils function is studied alone.     *)
(***************************************************************************)
\* The deployment script is not running.
NotDeploying == [pc |-> "idle"]

DashboardUnused ==
    /\ daily_df = EmptyTable
    /\ user_data = EmptyTable
    /\ inbox = <<>>
    /\ inflight = {}
    /\ initiated = <<>>
    /\ loaded = 0
    /\ shown = <<>>
    /\ invalidated = {}
    /\ exported = <<>>
    /\ notices = <<>>
    /\ input = <<>>
    /\ overlapped = FALSE

(***************************************************************************)
(* SpecNorm: the normalizer applied to a raw table, then to its own output. *)
(***************************************************************************)
InitNorm ==
    /\ fn = "none"
    /\ ret = NoCall
    /\ \E family \in {"daily", "user"} :
          \E df \in (IF family = "daily" THEN RawDailyTables ELSE RawUserTables) :
              arg = [family |-> family, normalized |-> FALSE, df |-> df]
    /\ DashboardUnused
    /\ deploy = NotDeploying

NormalizeDaily ==
    /\ fn = "none"
    /\ arg.family = "daily"
    /\ fn' = "process_daily_metrics"
    /\ ret' = process_daily_metrics(arg.df)
    /\ UNCHANGED <<arg, dashVars, deployVars>>

NormalizeUser ==
    /\ fn = "none"
    /\ arg.family = "user"
    /\ fn' = "process_user_metrics"
    /\ ret' = process_user_metrics(arg.df)
    /\ UNCHANGED <<arg, dashVars, deployVars>>

\* The normalizer applied again, to the table it returned.
RenormalizeDaily ==
    /\ fn = "process_daily_metrics"
    /\ ~arg.normalized
    /\ ret.kind = "returned"
    /\ arg' = [family |-> "daily", normalized |-> TRUE, df |-> ret.value]
    /\ ret' = process_daily_metrics(ret.value)
    /\ UNCHANGED <<fn, dashVars, deployVars>>

RenormalizeUser ==
    /\ fn = "process_user_metrics"
    /\ ~arg.normalized
    /\ ret.kind = "returned"
    /\ arg' = [family |-> "user", normalized |-> TRUE, df |-> ret.value]
    /\ ret' = process_user_metrics(ret.value)
    /\ UNCHANGED <<fn, dashVars, deployVars>>

NextNorm == NormalizeDaily \/ NormalizeUser \/ RenormalizeDaily \/ RenormalizeUser
SpecNorm == InitNorm /\ [][NextNorm]_vars

(***************************************************************************)
(* Claims about the normalizer (SpecNorm).                                 *)
(***************************************************************************)
FirstPass(f) == fn = f /\ ~arg.normalized
SortedBy(df, c) ==
    \A i \in 1..(Len(df.rows) - 1) : DatetimeLeq(df.rows[i][c], df.rows[i + 1][c])
BalancesParse(df) == AllCells(df, "user", LAMBDA u : CanFloat(u.balance))
\* The row the normalizer makes of one raw row, normalized alone.
AloneDaily(raw, i) == process_daily_metrics(Table(raw.cols, <<raw.rows[i]>>)).value.rows[1]
AloneUser(raw, i) == process_user_metrics(Table(raw.cols, <<raw.rows[i]>>)).value.rows[1]
\* out holds the rows of raw, each once, in some order.
SameRowsDaily(raw, out) ==
    /\ NRows(out) = NRows(raw)
    /\ \E p \in Permutations(1..NRows(raw)) :
          \A i \in 1..NRows(raw) : out.rows[i] = AloneDaily(raw, p[i])
SameRowsUser(raw, out) ==
    /\ NRows(out) = NRows(raw)
    /\ \E p \in Permutations(1..NRows(raw)) :
          \A i \in 1..NRows(raw) : out.rows[i] = AloneUser(raw, p[i])

C7_Idempotent == arg.normalized => ret = Returned(arg.df)

AllEpoch(df) == AllCells(df, "timestamp", LAMBDA v : v = Datetime(0, 0))
SameOutsideTimestamp(a, b) ==
    /\ a.cols = b.cols
    /\ NRows(a) = NRows(b)
    /\ \A i \in 1..NRows(a) :
          \A k \in DOMAIN a.rows[i] \ {"timestamp"} : a.rows[i][k] = b.rows[i][k]

\* C7, amended: an empty table is returned as it is; process_user_metrics applied
\* to a non-empty table it produced raises KeyError; process_daily_metrics applied
\* to a non-empty table T it produced raises or returns a table with the columns,
\* the row order and the cells of T outside timestamp, and that table equals T
\* exactly when every timestamp of T is the epoch.
C7_RenormalizeOutcome ==
    arg.normalized =>
        /\ IsEmpty(arg.df) => ret = Returned(arg.df)
        /\ (arg.family = "user" /\ ~IsEmpty(arg.df)) => ret = Raised("KeyError")
        /\ (arg.family = "daily" /\ ~IsEmpty(arg.df)) =>
              /\ ret.kind = "raised" => ret.exc = "OutOfBoundsDatetime"
              /\ ret.kind = "returned" => SameOutsideTimestamp(arg.df, ret.value)
              /\ (ret = Returned(arg.df)) <=> AllEpoch(arg.df)

\* C7's case: the daily normalizer, applied to a table it produced, returned a
\* table with other timestamps.
C7_Witness ==
    /\ arg.normalized
    /\ arg.family = "daily"
    /\ ret.kind = "returned"
    /\ ret.value # arg.df

\* C8, as claimed: normalization never aborts, and each cell of a declared numeric
\* column, and user_balance, holds the number its raw text denotes, or the missing
\* value when the text denotes none.
CoercedDailyRow(rawRow, outRow) ==
    \A k \in SeqRange(daily_numeric_cols) : outRow[k] = ToNumericCoerce(rawRow[k])
CoercedUserRow(rawRow, outRow) ==
    /\ \A k \in SeqRange(user_numeric_cols) : outRow[k] = ToNumericCoerce(rawRow[k])
    /\ outRow["user_balance"] = ToNumericCoerce(rawRow["user"].balance)
    /\ outRow["user_address"] = rawRow["user"].address
    /\ "user" \notin DOMAIN outRow
C8_UnparseableBecomesMissing ==
    /\ (FirstPass("process_daily_metrics") /\ ~IsEmpty(arg.df)) =>
          /\ ret.kind = "returned"
          /\ NRows(ret.value) = NRows(arg.df)
          /\ \E p \in Permutations(1..NRows(arg.df)) :
                \A i \in 1..NRows(arg.df) :
                    CoercedDailyRow(arg.df.rows[p[i]], ret.value.rows[i])
    /\ (FirstPass("process_user_metrics") /\ ~IsEmpty(arg.df)) =>
          /\ ret.kind = "returned"
          /\ NRows(ret.value) = NRows(arg.df)
          /\ \E p \in Permutations(1..NRows(arg.df)) :
                \A i \in 1..NRows(arg.df) :
                    CoercedUserRow(arg.df.rows[p[i]], ret.value.rows[i])

(***************************************************************************)
(* data_utils.py: format_large_number.                                     *)
(*                                                                         *)
(* A number beyond 32 bits is held as sign, millions and units:            *)
(* (-1)^neg * (hi * 10^6 + lo) with lo below 10^6.  The model formats      *)
(* integers; inputs halfway between two tenths, where the result depends   *)
(* on the binary rounding of the quotient, are outside its inputs.         *)
(***************************************************************************)
Million == 1000000
Wide(neg, hi, lo) == [t |-> "wide", neg |-> neg, hi |-> hi, lo |-> lo]
Abs(n) == IF n < 0 THEN 0 - n ELSE n
AsWide(v) == IF v.t = "wide" THEN v ELSE Wide(v.n < 0, Abs(v.n) \div Million, Abs(v.n) % Million)

\* abs(num) >= 1e9, 1e6, 1e3
AtLeastBillion(w) == w.hi >= 1000
AtLeastMillion(w) == w.hi >= 1
AtLeastThousand(w) == w.hi >= 1 \/ w.lo >= 1000

\* The quotient and the remainder of abs(num) by a tenth of the scale.
TenthsOfBillion(w) == [q |-> w.hi \div 100, rem |-> (w.hi % 100) * Million + w.lo, unit |-> 100 * Million]
TenthsOfMillion(w) == [q |-> w.hi * 10 + w.lo \div 100000, rem |-> w.lo % 100000, unit |-> 100000]
TenthsOfThousand(w) == [q |-> w.lo \div 100, rem |-> w.lo % 100, unit |-> 100]
Halfway(d) == 2 * d.rem = d.unit
RoundTenths(d) == IF 2 * d.rem > d.unit THEN d.q + 1 ELSE d.q

\* f"{x:.1f}" and f"{x:.2f}", from the count of tenths, or from an integer.
SignText(w) == IF w.neg THEN <<"-">> ELSE <<>>
OneDecimal(w, tenths) ==
    SignText(w) \o ToText(tenths \div 10) \o <<".">> \o <<DigitChars[(tenths % 10) + 1]>>
SixDigits(n) == [i \in 1..6 |-> DigitChars[((n \div (10 ^ (6 - i))) % 10) + 1]]
WholeText(w) == IF w.hi = 0 THEN ToText(w.lo) ELSE ToText(w.hi) \o SixDigits(w.lo)
TwoDecimals(w) == SignText(w) \o WholeText(w) \o <<".", "0", "0">>

\* The thresholds compared with num instead of abs(num): no negative number
\* reaches one.
format_large_number_signed(num) ==
    IF num.t = "nan" THEN <<"N", "/", "A">>
    ELSE LET w == AsWide(num) IN
         IF w.neg THEN TwoDecimals(w)
         ELSE IF AtLeastBillion(w) THEN OneDecimal(w, RoundTenths(TenthsOfBillion(w))) \o <<"B">>
         ELSE IF AtLeastMillion(w) THEN OneDecimal(w, RoundTenths(TenthsOfMillion(w))) \o <<"M">>
         ELSE IF AtLeastThousand(w) THEN OneDecimal(w, RoundTenths(TenthsOfThousand(w))) \o <<"K">>
         ELSE TwoDecimals(w)

format_large_number(num) ==
    IF num.t = "nan" THEN <<"N", "/", "A">>
    ELSE LET w == AsWide(num) IN
         IF AtLeastBillion(w) THEN OneDecimal(w, RoundTenths(TenthsOfBillion(w))) \o <<"B">>
         ELSE IF AtLeastMillion(w) THEN OneDecimal(w, RoundTenths(TenthsOfMillion(w))) \o <<"M">>
         ELSE IF AtLeastThousand(w) THEN OneDecimal(w, RoundTenths(TenthsOfThousand(w))) \o <<"K">>
         ELSE TwoDecimals(w)

(***************************************************************************)
(* SpecFormat: format_large_number applied to one number.                  *)
(***************************************************************************)
FormatMillions == {0, 1, 2, 999, 1000, 2147, 3000}
FormatUnits == {0, 1, 999, 1000, 1500, 99999, 500000, 999949, 999999}
NoHalfway(w) ==
    ~(\/ AtLeastBillion(w) /\ Halfway(TenthsOfBillion(w))
      \/ ~AtLeastBillion(w) /\ AtLeastMillion(w) /\ Halfway(TenthsOfMillion(w))
      \/ ~AtLeastMillion(w) /\ AtLeastThousand(w) /\ Halfway(TenthsOfThousand(w)))
FormatInputs ==
    {NaN} \cup
    {w \in {Wide(neg, hi, lo) : neg \in BOOLEAN, hi \in FormatMillions, lo \in FormatUnits} :
        /\ (w.neg => w.hi + w.lo > 0)
        /\ NoHalfway(w)}

InitFormat ==
    /\ fn = "none"
    /\ ret = NoCall
    /\ arg \in FormatInputs
    /\ DashboardUnused
    /\ deploy = NotDeploying

FormatNumber ==
    /\ fn = "none"
    /\ fn' = "format_large_number"
    /\ ret' = Returned(format_large_number(arg))
    /\ UNCHANGED <<arg, dashVars, deployVars>>

NextFormat == FormatNumber
SpecFormat == InitFormat /\ [][NextFormat]_vars

(***************************************************************************)
(* Claims about format_large_number (SpecFormat).  The result text is read  *)
(* back: its sign, its digits before and after the point, its suffix.       *)
(***************************************************************************)
Formatted == fn = "format_large_number"
SuffixOf(text) == IF text[Len(text)] \in {"K", "M", "B"} THEN text[Len(text)] ELSE ""
BodyOf(text) ==
    LET unsigned == IF text[1] = "-" THEN Tail(text) ELSE text
    IN IF SuffixOf(text) = "" THEN unsigned ELSE SubSeq(unsigned, 1, Len(unsigned) - 1)
PointAt(body) == CHOOSE i \in 1..Len(body) : body[i] = "."
WellFormedBody(body) ==
    /\ \E i \in 2..(Len(body) - 1) : body[i] = "."
    /\ \A i \in 1..Len(body) : i # PointAt(body) => IsDigit(body[i])
    /\ (PointAt(body) > 2 => body[1] # "0")
Decimals(body) == Len(body) - PointAt(body)
WholePart(body) == ParseDigits(SubSeq(body, 1, PointAt(body) - 1))
FractionPart(body) == ParseDigits(SubSeq(body, PointAt(body) + 1, Len(body)))

\* The scales, as the count of millions and of units in a tenth of each.
ScaleTenth(suffix) ==
    CASE suffix = "B" -> [hi |-> 100, lo |-> 0]
      [] suffix = "M" -> [hi |-> 0, lo |-> 100000]
      [] suffix = "K" -> [hi |-> 0, lo |-> 100]
Reaches(w, suffix) ==
    CASE suffix = "B" -> w.hi >= 1000
      [] suffix = "M" -> w.hi >= 1
      [] suffix = "K" -> w.hi * 1000 + w.lo \div 1000 >= 1
Above(a, b) == a = "B" \/ (a = "M" /\ b = "K")
\* The suffix of the largest scale that abs(num) reaches, "" when it reaches none.
LargestSuffix(w) ==
    IF \E s \in {"K", "M", "B"} : Reaches(w, s)
    THEN CHOOSE s \in {"K", "M", "B"} :
            Reaches(w, s) /\ \A o \in {"K", "M", "B"} : Reaches(w, o) => (o = s \/ Above(s, o))
    ELSE ""
\* tenths is the count of tenths of the scale nearest to abs(num).
NearestTenths(w, suffix, tenths) ==
    LET u == ScaleTenth(suffix)
        diff == (w.hi - u.hi * tenths) * Million + (w.lo - u.lo * tenths)
    IN 2 * Abs(diff) <= u.hi * Million + u.lo

ShowsScaled(w, text, suffix) ==
    /\ SuffixOf(text) = suffix
    /\ (text[1] = "-") <=> w.neg
    /\ WellFormedBody(BodyOf(text))
    /\ Decimals(BodyOf(text)) = 1
    /\ NearestTenths(w, suffix, 10 * WholePart(BodyOf(text)) + FractionPart(BodyOf(text)))
ShowsPlain(w, text) ==
    /\ SuffixOf(text) = ""
    /\ (text[1] = "-") <=> w.neg
    /\ WellFormedBody(BodyOf(text))
    /\ Decimals(BodyOf(text)) = 2
    /\ FractionPart(BodyOf(text)) = 0
    /\ WholePart(BodyOf(text)) = w.lo /\ w.hi = 0

\* C9, as claimed: a number below 1e3, every negative number included, is shown
\* to two decimal places with no suffix; a number from 1e3 up is shown with the
\* largest suffix it reaches; a missing value gives "N/A".
C9_NegativePlain ==
    (Formatted /\ arg.t = "wide") =>
        IF arg.neg \/ ~AtLeastThousand(arg)
        THEN ShowsPlain(arg, ret.value)
        ELSE ShowsScaled(arg, ret.value, LargestSuffix(arg))

\* C9, amended: the thresholds are compared with abs(n).  A missing value gives
\* "N/A"; a number with abs(n) below 1e3 is shown to two decimal places with no
\* suffix; any other number, negative ones included, is shown as n divided by the
\* largest scale among 1e3 (K), 1e6 (M), 1e9 (B) that abs(n) reaches, to one
\* decimal place (the nearest tenth), with its sign and that suffix.
\* In particular 999 gives "999.00", 1500 "1.5K", 2500000 "2.5M", 3000000000 "3.0B".
C9_LargestSuffixOfAbs ==
    Formatted =>
        /\ IF arg.t = "nan" THEN ret.value = <<"N", "/", "A">>
           ELSE IF LargestSuffix(arg) = "" THEN ShowsPlain(arg, ret.value)
           ELSE ShowsScaled(arg, ret.value, LargestSuffix(arg))
        /\ arg = Wide(FALSE, 0, 999) => ret.value = <<"9", "9", "9", ".", "0", "0">>
        /\ arg = Wide(FALSE, 0, 1500) => ret.value = <<"1", ".", "5", "K">>
        /\ arg = Wide(FALSE, 2, 500000) => ret.value = <<"2", ".", "5", "M">>
        /\ arg = Wide(FALSE, 3000, 0) => ret.value = <<"3", ".", "0", "B">>

\* C9's case: a negative number of magnitude 1500 was formatted, with a suffix.
C9_Witness ==
    /\ Formatted
    /\ arg = Wide(TRUE, 0, 1500)
    /\ ret.value = <<"-", "1", ".", "5", "K">>

(***************************************************************************)
(* app.py: the time-series views and their moving average.                 *)
(***************************************************************************)
RECURSIVE Gcd(_, _)
Gcd(a, b) == IF b = 0 THEN a ELSE Gcd(b, a % b)
\* The quotient p / q of a sum by a positive count, in lowest terms.
Ratio(p, q) == [t |-> "ratio", p |-> p \div Gcd(Abs(p), q), q |-> q \div Gcd(Abs(p), q)]

Column(df, c) == [i \in 1..Len(df.rows) |-> df.rows[i][c]]
Present(v) == v.t = "num"

\* Series.rolling(window, min_periods=1).mean(): one pass over the values that
\* adds the value entering the window and removes the one leaving it, and gives
\* the mean of the values seen when at least min_periods of them are present.
min_periods == 1
RECURSIVE RollingState(_, _, _)
RollingState(values, window, i) ==
    IF i = 0 THEN [sum |-> 0, nobs |-> 0]
    ELSE LET before == RollingState(values, window, i - 1)
             added == IF Present(values[i])
                      THEN [sum |-> before.sum + values[i].n, nobs |-> before.nobs + 1]
                      ELSE before
         IN IF i - window >= 1 /\ Present(values[i - window])
            THEN [sum |-> added.sum - values[i - window].n, nobs |-> added.nobs - 1]
            ELSE added
\* min_periods taken to be the window: no mean until the window is full.
rolling_mean_full_window(values, window) ==
    [i \in 1..Len(values) |->
        LET st == RollingState(values, window, i)
        IN IF st.nobs >= window THEN Ratio(st.sum, st.nobs) ELSE NaN]
rolling_mean(values, window) ==
    [i \in 1..Len(values) |->
        LET st == RollingState(values, window, i)
        IN IF st.nobs >= min_periods THEN Ratio(st.sum, st.nobs) ELSE NaN]

global_metrics ==
    [activeAccounts |-> "Active Accounts", averageTransferAmount |-> "Average Transfer",
     totalTransferValue |-> "Total Transfer Value", transferCount |-> "Transfer Count",
     uniqueReceivers |-> "Unique Receivers", uniqueSenders |-> "Unique Senders",
     volume |-> "Volume", newAccounts |-> "New Accounts"]
user_metrics ==
    [endDayBalance |-> "End Day Balance", totalReceived |-> "Total Received",
     totalTransferred |-> "Total Transferred", transferCount |-> "Transfer Count",
     averageTransferAmount |-> "Average Transfer", distinctReceivers |-> "Unique Receivers",
     distinctSenders |-> "Unique Senders", feesPaid |-> "Fees Paid"]

\* A figure: the placeholder, or the traces added to it in order.
create_empty_plot(title) ==
    [title |-> <<title>>, placeholder |-> TRUE, annotation |-> "No data available", traces |-> <<>>]
Figure(title, traces) ==
    [title |-> title, placeholder |-> FALSE, annotation |-> "", traces |-> traces]
LineTrace(name, x, y) == [name |-> name, dash |-> FALSE, x |-> x, y |-> y]
AverageTrace(window, x, y) ==
    [name |-> <<ToText(window), "-day MA">>, dash |-> TRUE, x |-> x, y |-> y]

time_series(df, title, x_col, names, metric, window) ==
    IF IsEmpty(df) THEN create_empty_plot(title)
    ELSE Figure(<<names[metric], " Over Time">>,
                <<LineTrace(names[metric], Column(df, x_col), Column(df, metric))>>
                \o (IF NRows(df) >= window
                    THEN <<AverageTrace(window, Column(df, x_col),
                                        rolling_mean(Column(df, metric), window))>>
                    ELSE <<>>))
global_time_series(df, metric, window) ==
    time_series(df, "Global Metrics Over Time", "timestamp", global_metrics, metric, window)
user_time_series(df, metric, window) ==
    time_series(df, "User Metrics Over Time", "date", user_metrics, metric, window)

(***************************************************************************)
(* SpecSeries: a time-series view computed from a table, a metric and a    *)
(* window.  The tables are normalized from raw rows that arrive newest     *)
(* first; the selected metric holds numbers and unparseable texts.         *)
(***************************************************************************)
MaxSeriesRows == 3
MaxWindow == 4
SeriesValues == {Str(<<"2">>), Str(<<"5">>), Str(<<"a", "b", "c">>)}
SeriesDailyTable(vs) ==
    process_daily_metrics(
        DataFrame(daily_query_fields,
                  [i \in 1..Len(vs) |->
                      RawDailyRow((Len(vs) - i) * SecondsPerDay, vs[i], FALSE)])).value
SeriesUserTable(vs) ==
    process_user_metrics(
        DataFrame(user_query_fields,
                  [i \in 1..Len(vs) |->
                      RawUserRow(<<"0", "x", "a">>, (Len(vs) - i) * SecondsPerDay,
                                 Str(DateText(Len(vs) - i + 1)), Str(<<"5", "0">>), vs[i])])).value

InitSeries ==
    /\ fn = "none"
    /\ ret = NoCall
    /\ \E vs \in SeqsUpTo(SeriesValues, MaxSeriesRows), w \in 1..MaxWindow :
          \/ \E m \in {"volume", "activeAccounts"} :
                arg = [view |-> "global", df |-> SeriesDailyTable(vs), metric |-> m, window |-> w]
          \/ \E m \in {"transferCount", "feesPaid"} :
                arg = [view |-> "user", df |-> SeriesUserTable(vs), metric |-> m, window |-> w]
    /\ DashboardUnused
    /\ deploy = NotDeploying

RenderGlobalSeries ==
    /\ fn = "none"
    /\ arg.view = "global"
    /\ fn' = "global_time_series"
    /\ ret' = Returned(global_time_series(arg.df, arg.metric, arg.window))
    /\ UNCHANGED <<arg, dashVars, deployVars>>

RenderUserSeries ==
    /\ fn = "none"
    /\ arg.view = "user"
    /\ fn' = "user_time_series"
    /\ ret' = Returned(user_time_series(arg.df, arg.metric, arg.window))
    /\ UNCHANGED <<arg, dashVars, deployVars>>

NextSeries == RenderGlobalSeries \/ RenderUserSeries
SpecSeries == InitSeries /\ [][NextSeries]_vars

(***************************************************************************)
(* Claims about the moving average (SpecSeries).                           *)
(***************************************************************************)
SeriesRendered == fn \in {"global_time_series", "user_time_series"}
AverageTraces(fig) == SelectSeq(fig.traces, LAMBDA tr : tr.dash)
RECURSIVE SumOver(_, _)
SumOver(values, idx) ==
    IF idx = {} THEN 0
    ELSE LET i == CHOOSE j \in idx : TRUE IN values[i].n + SumOver(values, idx \ {i})
Max2(a, b) == IF a >= b THEN a ELSE b
\* The mean of the values present in rows max(1, i - window + 1) .. i.
WindowMean(values, window, i) ==
    LET idx == {j \in Max2(1, i - window + 1)..i : Present(values[j])}
    IN IF idx = {} THEN NaN ELSE Ratio(SumOver(values, idx), Cardinality(idx))

\* C10: in both time-series views the moving-average series is present exactly
\* when the table has at least window rows; when present it has one point per
\* row, and point i is the mean of the values present in rows
\* max(1, i - window + 1) .. i of the selected metric.
C10_MovingAverage ==
    SeriesRendered =>
        LET fig == ret.value
            values == Column(arg.df, arg.metric)
            avg == AverageTraces(fig)
        IN /\ Len(avg) = (IF NRows(arg.df) >= arg.window THEN 1 ELSE 0)
           /\ Len(avg) = 1 =>
                 /\ Len(avg[1].y) = NRows(arg.df)
                 /\ Len(avg[1].x) = NRows(arg.df)
                 /\ \A i \in 1..NRows(arg.df) :
                       avg[1].y[i] = WindowMean(values, arg.window, i)

\* C10's case: a table of three rows with a missing value and a window of two:
\* the average is shown, its first point from the one row available.
C10_Witness ==
    /\ fn = "user_time_series"
    /\ NRows(arg.df) = 3
    /\ arg.window = 2
    /\ arg.metric = "transferCount"
    /\ \E i \in 1..3 : ~Present(arg.df.rows[i]["transferCount"])
    /\ Present(arg.df.rows[1]["transferCount"])
    /\ Len(AverageTraces(ret.value)) = 1
    /\ AverageTraces(ret.value)[1].y[1] = Ratio(arg.df.rows[1]["transferCount"].n, 1)

(***************************************************************************)
(* data_utils.py: the metrics client.  The outcome of requests.post is a   *)
(* transport error or a response with a status and a body; the body is no  *)
(* JSON, or a JSON object (a function from its keys).                      *)
(***************************************************************************)
TransportError == [t |-> "transport_error"]
Response(status, body) == [t |-> "response", status |-> status, body |-> body]
NotJson == [t |-> "not_json"]
Json(object) == [t |-> "json", object |-> object]
JsonObject(fields) == [t |-> "object", fields |-> fields]
JsonList(items) == [t |-> "list", items |-> items]
HasKey(object, k) == k \in DOMAIN object.fields

\* response.raise_for_status(): raises HTTPError for a status of 400 to 599.
RaisesForStatus(status) == status >= 400 /\ status < 600

\* The body of the try block: post, raise_for_status, json, the 'errors' test,
\* data['data'][key], pd.DataFrame.
fetch_try(outcome, key, fields) ==
    IF outcome.t = "transport_error" THEN Raised("ConnectionError")
    ELSE IF RaisesForStatus(outcome.status) THEN Raised("HTTPError")
    ELSE IF outcome.body.t = "not_json" THEN Raised("JSONDecodeError")
    ELSE LET data == outcome.body.object IN
         IF HasKey(data, "errors") THEN Returned(EmptyTable)
         ELSE IF ~HasKey(data, "data") THEN Raised("KeyError")
         ELSE IF data.fields["data"].t # "object" THEN Raised("TypeError")
         ELSE IF ~HasKey(data.fields["data"], key) THEN Raised("KeyError")
         ELSE IF data.fields["data"].fields[key].t # "list" THEN Raised("TypeError")
         ELSE Returned(DataFrame(fields, data.fields["data"].fields[key].items))

\* except Exception: log and return an empty frame.
ExceptEmpty(outcome) == IF outcome.kind = "raised" THEN Returned(EmptyTable) ELSE outcome

\* The handler left out: what the try block raises escapes.
fetch_daily_metrics_unguarded(outcome) == fetch_try(outcome, "dailyMetrics", daily_query_fields)
fetch_daily_metrics(outcome) ==
    ExceptEmpty(fetch_try(outcome, "dailyMetrics", daily_query_fields))
fetch_user_metrics(address, outcome) ==
    ExceptEmpty(fetch_try(outcome, "userDailyMetrics", user_query_fields))

(***************************************************************************)
(* SpecFetch: one call of a fetch function, for every outcome of its HTTP  *)
(* call.                                                                   *)
(***************************************************************************)
Statuses == {200, 204, 304, 404, 500}
FetchDailyRows == {RawDailyRow(ts, Str(<<"1", "2">>), FALSE) : ts \in {0, 90000}}
FetchUserRows ==
    {RawUserRow(<<"0", "x", "a">>, ts, Str(DateText(1)), Str(<<"5", "0">>), Str(<<"1", "2">>)) :
        ts \in {0, 90000}}
\* The bodies: with and without 'errors', with 'data' absent, null, lacking the
\* expected key, holding null under it, or holding a list of rows.
Bodies(key, rows) ==
    {NotJson,
     Json(JsonObject([k \in {"errors"} |-> JsonList(<<>>)])),
     Json(JsonObject([k \in {} |-> Null])),
     Json(JsonObject([k \in {"data"} |-> Null])),
     Json(JsonObject([k \in {"data"} |-> JsonObject([j \in {} |-> Null])])),
     Json(JsonObject([k \in {"data"} |-> JsonObject([j \in {key} |-> Null])]))}
    \cup {Json(JsonObject([k \in {"data"} |-> JsonObject([j \in {key} |-> JsonList(items)])])) :
            items \in SeqsUpTo(rows, MaxRows)}
    \cup {Json(JsonObject([k \in {"data", "errors"} |->
                              IF k = "errors" THEN JsonList(<<>>)
                              ELSE JsonObject([j \in {key} |-> JsonList(items)])])) :
            items \in SeqsUpTo(rows, MaxRows)}
HttpOutcomes(key, rows) ==
    {TransportError} \cup {Response(st, b) : st \in Statuses, b \in Bodies(key, rows)}

InitFetch ==
    /\ fn = "none"
    /\ ret = NoCall
    /\ \/ \E o \in HttpOutcomes("dailyMetrics", FetchDailyRows) :
             arg = [family |-> "daily", address |-> <<>>, outcome |-> o]
       \/ \E o \in HttpOutcomes("userDailyMetrics", FetchUserRows) :
             arg = [family |-> "user", address |-> <<"0", "x", "a">>, outcome |-> o]
    /\ DashboardUnused
    /\ deploy = NotDeploying

FetchDaily ==
    /\ fn = "none"
    /\ arg.family = "daily"
    /\ fn' = "fetch_daily_metrics"
    /\ ret' = fetch_daily_metrics(arg.outcome)
    /\ UNCHANGED <<arg, dashVars, deployVars>>

FetchUser ==
    /\ fn = "none"
    /\ arg.family = "user"
    /\ fn' = "fetch_user_metrics"
    /\ ret' = fetch_user_metrics(arg.address, arg.outcome)
    /\ UNCHANGED <<arg, dashVars, deployVars>>

NextFetch == FetchDaily \/ FetchUser
SpecFetch == InitFetch /\ [][NextFetch]_vars

(***************************************************************************)
(* Claims about the metrics client (SpecFetch).                            *)
(***************************************************************************)
Fetched == fn \in {"fetch_daily_metrics", "fetch_user_metrics"}
ExpectedKey == IF arg.family = "daily" THEN "dailyMetrics" ELSE "userDailyMetrics"
\* The rows the body carries under data[key]; none when it carries none.
RowsCarried(o) ==
    IF /\ o.t = "response"
       /\ o.body.t = "json"
       /\ HasKey(o.body.object, "data")
       /\ o.body.object.fields["data"].t = "object"
       /\ HasKey(o.body.object.fields["data"], ExpectedKey)
       /\ o.body.object.fields["data"].fields[ExpectedKey].t = "list"
    THEN o.body.object.fields["data"].fields[ExpectedKey].items
    ELSE <<>>
HasErrors(o) == o.t = "response" /\ o.body.t = "json" /\ HasKey(o.body.object, "errors")
Is2xx(o) == o.t = "response" /\ o.status \in 200..299
IsErrorStatus(o) == o.t = "response" /\ o.status \in 400..599

RECURSIVE SumPresent(_)
SumPresent(values) ==
    IF Len(values) = 0 THEN 0
    ELSE SumPresent(SubSeq(values, 1, Len(values) - 1))
         + (IF Present(values[Len(values)]) THEN values[Len(values)].n ELSE 0)
NotAvailable == <<"N", "/", "A">>
LastRow(df) == df.rows[Len(df.rows)]

\* daily_volume, active_users, new_users
latest_text(df, c) == IF IsEmpty(df) THEN NotAvailable ELSE format_large_number(LastRow(df)[c])
\* total_transfers, total_volume
sum_text(df, c) ==
    IF IsEmpty(df) THEN NotAvailable ELSE format_large_number(Num(SumPresent(Column(df, c))))

nbinsx == 30
histogram_unchecked(df, empty_title, title) ==
    Figure(<<title>>, <<[name |-> "Transfers", nbinsx |-> nbinsx,
                         x |-> Column(df, "averageTransferAmount")]>>)
histogram(df, empty_title, title) ==
    IF IsEmpty(df) THEN create_empty_plot(empty_title)
    ELSE Figure(<<title>>, <<[name |-> "Transfers", nbinsx |-> nbinsx,
                          x |-> Column(df, "averageTransferAmount")]>>)

\* Series.dt.hour and Series.dt.day_name(): the epoch was a Thursday.
DayNames == <<"Monday", "Tuesday", "Wednesday", "Thursday", "Friday", "Saturday", "Sunday">>
DaysSorted == <<"Friday", "Monday", "Saturday", "Sunday", "Thursday", "Tuesday", "Wednesday">>
HourOf(dt) == Num((dt.m % SecondsPerDay) \div SecondsPerHour)
DayNameOf(dt) == Str(DayNames[(((dt.m \div SecondsPerDay) + 3) % 7) + 1])
WithHourAndWeekday(df) ==
    SetCol(SetCol(df, "hour", LAMBDA r : HourOf(r["timestamp"])),
           "weekday", LAMBDA r : DayNameOf(r["timestamp"]))

\* df.pivot_table(values='transferCount', index='weekday', columns='hour',
\* aggfunc=..., fill_value=0).  The rows are grouped by (weekday, hour) and each
\* group is aggregated over its present values; a group without a present value
\* has the sum 0 and the mean NaN, and pivot_table drops the groups whose
\* aggregate is NaN.  The matrix has the weekdays and the hours of the groups
\* that are left, each sorted, and 0 where a (weekday, hour) pair has no group.
GroupKept(df, aggfunc, d, h) ==
    \E i \in 1..NRows(df) :
        /\ df.rows[i]["weekday"] = Str(d)
        /\ df.rows[i]["hour"] = Num(h)
        /\ (aggfunc = "sum" \/ Present(df.rows[i]["transferCount"]))
PivotIndex(df, aggfunc) ==
    SelectSeq(DaysSorted, LAMBDA d : \E h \in 0..23 : GroupKept(df, aggfunc, d, h))
PivotColumns(df, aggfunc) ==
    SelectSeq([h \in 1..24 |-> h - 1],
              LAMBDA h : \E i \in 1..7 : GroupKept(df, aggfunc, DayNames[i], h))
CellValues(df, d, h) ==
    SelectSeq(df.rows, LAMBDA r : /\ r["weekday"] = Str(d)
                                  /\ r["hour"] = Num(h)
                                  /\ Present(r["transferCount"]))
Aggregate_always_sum(aggfunc, rows) ==
    Num(SumPresent([i \in 1..Len(rows) |-> rows[i]["transferCount"]]))
Aggregate(aggfunc, rows) ==
    IF Len(rows) = 0 THEN Num(0)
    ELSE LET total == SumPresent([i \in 1..Len(rows) |-> rows[i]["transferCount"]])
         IN IF aggfunc = "sum" THEN Num(total) ELSE Ratio(total, Len(rows))
pivot_table(df, aggfunc) ==
    LET index == PivotIndex(df, aggfunc)
        columns == PivotColumns(df, aggfunc)
    IN [index |-> index,
        columns |-> columns,
        values |-> [i \in 1..Len(index) |->
                       [j \in 1..Len(columns) |->
                           Aggregate(aggfunc, CellValues(df, index[i], columns[j]))]]]
HourLabels == [h \in 1..24 |-> ToText(h - 1)]
heatmap(df, aggfunc, title) ==
    IF IsEmpty(df) THEN create_empty_plot("Activity Heatmap")
    ELSE LET pivot == pivot_table(WithHourAndWeekday(df), aggfunc)
         IN Figure(<<title>>, <<[z |-> pivot.values, x |-> HourLabels, y |-> pivot.index]>>)

GlobalOutputs ==
    {"daily_volume", "active_users", "new_users", "global_time_series",
     "global_transfer_distribution", "global_activity_heatmap", "global_data_table"}
UserOutputs ==
    {"total_transfers", "total_volume", "current_balance", "user_time_series",
     "transfer_distribution", "activity_heatmap", "user_data_table"}
\* The outputs in the order server() defines them: the order of a flush.
OutputOrder ==
    <<"daily_volume", "active_users", "new_users", "total_transfers", "total_volume",
      "current_balance", "global_time_series", "global_transfer_distribution",
      "global_activity_heatmap", "user_time_series", "transfer_distribution",
      "activity_heatmap", "global_data_table", "user_data_table">>

\* What output o displays, computed from the global table g, the user table u and
\* the inputs in.
View(o, g, u, in) ==
    CASE o = "daily_volume" -> latest_text(g, "volume")
      [] o = "active_users" -> latest_text(g, "activeAccounts")
      [] o = "new_users" -> latest_text(g, "newAccounts")
      [] o = "total_transfers" -> sum_text(u, "transferCount")
      [] o = "total_volume" -> sum_text(u, "totalTransferred")
      [] o = "current_balance" -> latest_text(u, "endDayBalance")
      [] o = "global_time_series" -> global_time_series(g, in.global_metric, in.global_ma_window)
      [] o = "global_transfer_distribution" ->
            histogram(g, "Transfer Distribution", "Global Transfer Amount Distribution")
      [] o = "global_activity_heatmap" ->
            heatmap(g, "mean", "Global Activity Heatmap (Average Transfers)")
      [] o = "user_time_series" -> user_time_series(u, in.user_metric, in.user_ma_window)
      [] o = "transfer_distribution" ->
            histogram(u, "Transfer Distribution", "Transfer Amount Distribution")
      [] o = "activity_heatmap" -> heatmap(u, "sum", "Activity Heatmap")
      [] o = "global_data_table" -> g
      [] o = "user_data_table" -> u

\* The table an output leaves behind.  global_activity_heatmap works on
\* daily_df.copy(); activity_heatmap assigns the hour and weekday columns to the
\* frame that user_data.get() returned, which is the stored frame.
UserTableAfter(o, u) ==
    IF o = "activity_heatmap" /\ ~IsEmpty(u) THEN WithHourAndWeekday(u) ELSE u
GlobalTableAfter(o, g) == g

\* df.to_csv(index=False): the header and the rows.
to_csv(df) == [header |-> df.cols, lines |-> df.rows]

(***************************************************************************)
(* app.py: the session.  The browser queues the clicks of the lookup       *)
(* button; the server handles one message at a time.  update_user_data is  *)
(* a synchronous effect: from its start to the end of the HTTP call it     *)
(* holds the event loop, so no other effect and no output runs meanwhile,  *)
(* and the outputs it invalidates are re-rendered in the same flush, one   *)
(* after the other in the order they were defined.                         *)
(***************************************************************************)
EmptyAddress == <<>>
LookupAddresses == Addresses \cup {EmptyAddress}
AllOutputs == GlobalOutputs \cup UserOutputs
Unrendered == [rendered |-> FALSE]
Displayed(v) == [rendered |-> TRUE, value |-> v]

\* What the indexing service holds for an address, newest row first.
ServerRows(a) ==
    IF a = <<"0", "x", "a">>
    THEN <<RawUserRow(a, 90000, Str(DateText(2)), Str(<<"5", "0">>), Str(<<"1", "2">>)),
           RawUserRow(a, 0, Str(DateText(1)), Str(<<"5", "0">>), Str(<<"a", "b", "c">>))>>
    ELSE <<RawUserRow(a, 7, Str(DateText(1)), Str(<<"9">>), Str(<<"3">>))>>
RowsBody(key, items) ==
    Json(JsonObject([k \in {"data"} |-> JsonObject([j \in {key} |-> JsonList(items)])]))
\* The outcomes of the HTTP call of a lookup: a failure, no row, the rows.
ServerOutcomes(a) ==
    {TransportError,
     Response(200, RowsBody("userDailyMetrics", <<>>)),
     Response(200, RowsBody("userDailyMetrics", ServerRows(a)))}
DailyOutcomes ==
    {TransportError,
     Response(200, RowsBody("dailyMetrics",
                            <<RawDailyRow(90000, Str(<<"1", "5", "0", "0">>), FALSE),
                              RawDailyRow(0, Str(<<"1", "2">>), TRUE)>>))}

\* The inputs as the page creates them.
DefaultInput ==
    [global_metric |-> "volume", global_ma_window |-> 7,
     user_metric |-> "transferCount", user_ma_window |-> 7]

\* reactive.Value.set: the new frame replaces the stored one.
reactive_set_merged(old, new) ==
    IF IsEmpty(old) THEN new ELSE Table(old.cols, old.rows \o new.rows)
reactive_set(old, new) == new
\* The outputs that read user_data.get(), which a set invalidates.
DependentsWithoutTable == UserOutputs \ {"user_data_table"}
Dependents == UserOutputs
\* The effect is a plain function around a blocking HTTP call: a run starts only
\* when no other run holds the event loop.
CanStartWhileRunning == TRUE
CanStart == inflight = {}

Init ==
    /\ fn = "none"
    /\ arg = <<>>
    /\ ret = NoCall
    /\ \E o \in DailyOutcomes : daily_df = process_daily_metrics(fetch_daily_metrics(o).value).value
    /\ user_data = EmptyTable
    /\ inbox = <<>>
    /\ inflight = {}
    /\ initiated = <<>>
    /\ loaded = 0
    /\ shown = [o \in AllOutputs |-> Unrendered]
    /\ invalidated = AllOutputs
    /\ exported = [global |-> Unrendered, user |-> Unrendered]
    /\ notices = <<>>
    /\ input = DefaultInput
    /\ overlapped = FALSE
    /\ deploy = NotDeploying

\* The user presses "Analyze Wallet" with address a in the text box.
ClickLookup(a) ==
    /\ Len(initiated) < MaxLookups
    /\ inbox' = Append(inbox, [seq |-> Len(initiated) + 1, address |-> a])
    /\ initiated' = Append(initiated, a)
    /\ overlapped' = (overlapped \/ (a # EmptyAddress /\ \E h \in inflight : h.address # a))
    /\ UNCHANGED <<pureVars, deployVars, daily_df, user_data, inflight, loaded, shown, invalidated,
                   exported, notices, input>>

\* update_user_data starts: it reads the address and, when it is not empty, posts
\* the query.
StartLookup ==
    /\ inbox # <<>>
    /\ CanStart
    /\ invalidated = {}
    /\ inbox' = Tail(inbox)
    /\ inflight' = IF Head(inbox).address = EmptyAddress THEN inflight
                   ELSE inflight \cup {Head(inbox)}
    /\ UNCHANGED <<pureVars, deployVars, daily_df, user_data, initiated, loaded, shown, invalidated,
                   exported, notices, input, overlapped>>

\* The HTTP call of run h ends with outcome o: the rest of update_user_data.
CompleteLookup(h, o) ==
    LET data == process_user_metrics(fetch_user_metrics(h.address, o).value) IN
    /\ h \in inflight
    /\ inflight' = inflight \ {h}
    /\ IF data.kind = "returned"
       THEN /\ user_data' = reactive_set(user_data, data.value)
            /\ invalidated' = invalidated \cup Dependents
            /\ loaded' = h.seq
            /\ notices' = Append(notices,
                                 IF IsEmpty(data.value)
                                 THEN [type |-> "warning", text |-> "No data found for this address"]
                                 ELSE [type |-> "message", text |-> "Data loaded successfully"])
       ELSE UNCHANGED <<user_data, invalidated, loaded, notices>>
    /\ UNCHANGED <<pureVars, deployVars, daily_df, inbox, initiated, shown, exported, input, overlapped>>

\* The flush renders the first invalidated output.
NextOutput == OutputOrder[CHOOSE i \in 1..Len(OutputOrder) :
                             /\ OutputOrder[i] \in invalidated
                             /\ \A j \in 1..(i - 1) : OutputOrder[j] \notin invalidated]
FlushStep ==
    /\ invalidated # {}
    /\ inflight = {}
    /\ invalidated' = invalidated \ {NextOutput}
RenderOutput ==
    /\ FlushStep
    /\ shown' = [shown EXCEPT ![NextOutput] = Displayed(View(NextOutput, daily_df, user_data, input))]
    /\ user_data' = UserTableAfter(NextOutput, user_data)
    /\ daily_df' = GlobalTableAfter(NextOutput, daily_df)
    /\ UNCHANGED <<pureVars, deployVars, inbox, inflight, initiated, loaded, exported, notices, input,
                   overlapped>>

\* download_global_data, download_user_data
DownloadGlobal ==
    /\ inflight = {}
    /\ exported' = [exported EXCEPT !.global = Displayed(to_csv(daily_df))]
    /\ UNCHANGED <<pureVars, deployVars, daily_df, user_data, inbox, inflight, initiated, loaded, shown,
                   invalidated, notices, input, overlapped>>
DownloadUser ==
    /\ inflight = {}
    /\ exported' = [exported EXCEPT !.user = Displayed(to_csv(user_data))]
    /\ UNCHANGED <<pureVars, deployVars, daily_df, user_data, inbox, inflight, initiated, loaded, shown,
                   invalidated, notices, input, overlapped>>

Next ==
    \/ \E a \in LookupAddresses : ClickLookup(a)
    \/ StartLookup
    \/ \E h \in inflight : \E o \in ServerOutcomes(h.address) : CompleteLookup(h, o)
    \/ RenderOutput
    \/ DownloadGlobal
    \/ DownloadUser
Spec == Init /\ [][Next]_vars
\* A flush, once started, runs to its end: while an output is invalidated the
\* step that renders the next one is taken.
FairSpec == Spec /\ WF_invalidated(FlushStep)

(***************************************************************************)
(* Claims about the session.                                               *)
(***************************************************************************)
\* The normalized tables the service can answer a lookup of address a with.
LookupResults(a) ==
    {process_user_metrics(fetch_user_metrics(a, o).value).value : o \in ServerOutcomes(a)}
AddressesIn(df) == {df.rows[i]["user_address"] : i \in 1..NRows(df)}
Successes == {i \in 1..Len(notices) : notices[i].type = "message"}

\* C2: a lookup that completes leaves in user_data exactly the normalized
\* response of that lookup (the empty table for a failure or for zero rows):
\* whatever the table held before is gone, nothing is merged or appended.
C2_ReplacedWholesale ==
    [][loaded' # loaded =>
         /\ user_data' \in LookupResults(initiated[loaded'])
         /\ AddressesIn(user_data') \subseteq {Str(initiated[loaded'])}]_vars
\* Two lookups of different addresses both returned rows, and the table holds
\* the rows of the second one only.
C2_Witness ==
    /\ Len(notices) = 2
    /\ Successes = {1, 2}
    /\ loaded = 2
    /\ initiated[1] # initiated[2]
    /\ AddressesIn(user_data) = {Str(initiated[2])}

\* The lookups whose address is not empty: the ones that query the service.
Querying == {i \in 1..Len(initiated) : initiated[i] # EmptyAddress}
Latest(S) == CHOOSE i \in S : \A j \in S : j <= i
Settled == inbox = <<>> /\ inflight = {}

\* C3: when a lookup is initiated while an earlier one is still in flight, then
\* once all of them have finished user_data holds the result of the one that
\* was initiated last, and the rows of no other address.
C3_LastInitiatedWins ==
    (Settled /\ Querying # {}) =>
        /\ loaded = Latest(Querying)
        /\ AddressesIn(user_data) \subseteq {Str(initiated[loaded])}
\* A lookup of another address was initiated during the HTTP call of an
\* earlier one, both have finished and the later one's rows are in the table.
C3_Witness ==
    /\ overlapped
    /\ Settled
    /\ loaded = Len(initiated)
    /\ Successes = 1..Len(notices)
    /\ Len(notices) >= 2
    /\ AddressesIn(user_data) = {Str(initiated[loaded])}

\* C4: rendering a view and downloading a CSV read the tables and leave
\* daily_df and user_data as they were.
C4_ViewsLeaveTablesAlone ==
    [][(RenderOutput \/ DownloadGlobal \/ DownloadUser) =>
         (user_data' = user_data /\ daily_df' = daily_df)]_vars

\* C5: a lookup that sets user_data invalidates every output computed from it,
\* each of them is rendered again, and an output that is up to date shows the
\* view of the table user_data holds now.
UpToDate(o) == o \notin invalidated /\ shown[o].rendered
C5_UserViewsFollowTable ==
    /\ [][loaded' # loaded => UserOutputs \subseteq invalidated']_vars
    /\ [](\A o \in UserOutputs :
            UpToDate(o) => shown[o].value = View(o, daily_df, user_data, input))
    /\ (invalidated \cap UserOutputs # {}) ~> (invalidated \cap UserOutputs = {})
\* After a lookup that returned rows every user output has been rendered again
\* and the table view shows the loaded rows.
C5_Witness ==
    /\ loaded > 0
    /\ ~IsEmpty(user_data)
    /\ invalidated = {}
    /\ \A o \in UserOutputs : shown[o].rendered
    /\ shown["user_data_table"].value = user_data

(***************************************************************************)
(* SpecHeat: an activity heatmap computed from a table.  The rows           *)
(* arrive at the epoch (a Thursday, 00:00), a few seconds later, and on    *)
(* the next day at 01:00; the transfer count holds numbers and an          *)
(* unparseable text.                                                       *)
(***************************************************************************)
MaxHeatRows == 3
HeatTimestamps == {0, 7, 90000}
HeatCounts == {Str(<<"2">>), Str(<<"5">>), Str(<<"a", "b", "c">>)}
HeatDailyTable(rows) ==
    process_daily_metrics(
        DataFrame(daily_query_fields,
                  [i \in 1..Len(rows) |->
                      [RawDailyRow(rows[i][1], Str(<<"1">>), FALSE)
                          EXCEPT !["transferCount"] = rows[i][2]]])).value
HeatUserTable(rows) ==
    process_user_metrics(
        DataFrame(user_query_fields,
                  [i \in 1..Len(rows) |->
                      RawUserRow(<<"0", "x", "a">>, rows[i][1],
                                 Str(DateText((rows[i][1] \div SecondsPerDay) + 1)),
                                 Str(<<"5", "0">>), rows[i][2])])).value
\* The pivot a heatmap is drawn from, and the figure.
NoPivot == [index |-> <<>>, columns |-> <<>>, values |-> <<>>]
Drawn(df, aggfunc, title) ==
    [pivot |-> IF IsEmpty(df) THEN NoPivot ELSE pivot_table(WithHourAndWeekday(df), aggfunc),
     figure |-> heatmap(df, aggfunc, title)]

InitHeat ==
    /\ fn = "none"
    /\ ret = NoCall
    /\ \E rows \in SeqsUpTo(HeatTimestamps \X HeatCounts, MaxHeatRows) :
          \/ arg = [view |-> "global", df |-> HeatDailyTable(rows)]
          \/ arg = [view |-> "user", df |-> HeatUserTable(rows)]
    /\ DashboardUnused
    /\ deploy = NotDeploying

RenderGlobalHeat ==
    /\ fn = "none"
    /\ arg.view = "global"
    /\ fn' = "global_activity_heatmap"
    /\ ret' = Returned(Drawn(arg.df, "mean", "Global Activity Heatmap (Average Transfers)"))
    /\ UNCHANGED <<arg, dashVars, deployVars>>

RenderUserHeat ==
    /\ fn = "none"
    /\ arg.view = "user"
    /\ fn' = "activity_heatmap"
    /\ ret' = Returned(Drawn(arg.df, "sum", "Activity Heatmap"))
    /\ UNCHANGED <<arg, dashVars, deployVars>>

NextHeat == RenderGlobalHeat \/ RenderUserHeat
SpecHeat == InitHeat /\ [][NextHeat]_vars

HeatRendered == fn \in {"global_activity_heatmap", "activity_heatmap"} /\ ~IsEmpty(arg.df)
\* The rows of the table with weekday d and hour h, and those among them whose
\* transfer count is present.
RowsAt(d, h) ==
    {i \in 1..NRows(arg.df) : /\ DayNameOf(arg.df.rows[i]["timestamp"]) = Str(d)
                              /\ HourOf(arg.df.rows[i]["timestamp"]) = Num(h)}
CountedAt(d, h) == {i \in RowsAt(d, h) : Present(arg.df.rows[i]["transferCount"])}
ExpectedCell(d, h) ==
    IF CountedAt(d, h) = {} THEN Num(0)
    ELSE IF arg.view = "global"
         THEN Ratio(SumOver(Column(arg.df, "transferCount"), CountedAt(d, h)),
                    Cardinality(CountedAt(d, h)))
         ELSE Num(SumOver(Column(arg.df, "transferCount"), CountedAt(d, h)))
Cells == {dh \in SeqRange(DayNames) \X (0..23) : CountedAt(dh[1], dh[2]) # {}}
Position(seq, x) == CHOOSE i \in 1..Len(seq) : seq[i] = x

\* C11: every cell of the activity pivot holds the mean (global heatmap) or the
\* sum (user heatmap) of the transfer counts of the rows with its weekday and
\* hour, and 0 when it has no such row; every (weekday, hour) with a counted
\* row has its cell; and when all the counted rows share one (weekday, hour)
\* that cell is the only one that is not 0.
C11_PivotCells ==
    HeatRendered =>
        LET p == ret.value.pivot IN
        /\ \A i \in 1..Len(p.index), j \in 1..Len(p.columns) :
              p.values[i][j] = ExpectedCell(p.index[i], p.columns[j])
        /\ \A dh \in Cells : dh[1] \in SeqRange(p.index) /\ dh[2] \in SeqRange(p.columns)
        /\ \A dh \in Cells :
              Cells = {dh} =>
                  \A i \in 1..Len(p.index), j \in 1..Len(p.columns) :
                      IF p.index[i] = dh[1] /\ p.columns[j] = dh[2]
                      THEN p.values[i][j] = ExpectedCell(dh[1], dh[2])
                      ELSE p.values[i][j] = Num(0)
\* A global heatmap of three rows: two in one cell, which holds their mean 7/2,
\* the third on another weekday and hour, and the two remaining cells at 0.
C11_Witness ==
    /\ HeatRendered
    /\ arg.view = "global"
    /\ Cardinality(Cells) = 2
    /\ \E dh \in Cells : Cardinality(CountedAt(dh[1], dh[2])) = 2
    /\ Len(ret.value.pivot.index) = 2
    /\ Len(ret.value.pivot.columns) = 2
    /\ \E i, j \in 1..2 : ret.value.pivot.values[i][j] = Ratio(7, 2)
    /\ \E i, j \in 1..2 : ret.value.pivot.values[i][j] = Num(0)

(***************************************************************************)
(* SpecViews: one output computed from the tables and the inputs.  The     *)
(* global table is what start-up leaves after a failed or a successful     *)
(* fetch, the user table what a lookup leaves (empty before any lookup,    *)
(* after a failure and after zero rows); the metric ranges over the        *)
(* choices of its selector and the window over the ends and the default    *)
(* of its slider.                                                          *)
(***************************************************************************)
WindowChoices == {1, 7, 30}
GlobalTables == {process_daily_metrics(fetch_daily_metrics(o).value).value : o \in DailyOutcomes}
UserTables ==
    UNION {{process_user_metrics(fetch_user_metrics(a, o).value).value : o \in ServerOutcomes(a)}
             : a \in Addresses}

InitViews ==
    /\ fn = "none"
    /\ ret = NoCall
    /\ \E w \in WindowChoices :
          \/ \E o \in GlobalOutputs, g \in GlobalTables, m \in DOMAIN global_metrics :
                arg = [output |-> o, g |-> g, u |-> EmptyTable,
                       input |-> [DefaultInput EXCEPT !.global_metric = m,
                                                      !.global_ma_window = w]]
          \/ \E o \in UserOutputs, u \in UserTables, m \in DOMAIN user_metrics :
                arg = [output |-> o, g |-> EmptyTable, u |-> u,
                       input |-> [DefaultInput EXCEPT !.user_metric = m,
                                                      !.user_ma_window = w]]
    /\ DashboardUnused
    /\ deploy = NotDeploying

RenderView ==
    /\ fn = "none"
    /\ fn' = arg.output
    /\ ret' = Returned(View(arg.output, arg.g, arg.u, arg.input))
    /\ UNCHANGED <<arg, dashVars, deployVars>>

NextViews == RenderView
SpecViews == InitViews /\ [][NextViews]_vars

ScalarOutputs ==
    {"daily_volume", "active_users", "new_users", "total_transfers", "total_volume",
     "current_balance"}
ChartOutputs ==
    {"global_time_series", "global_transfer_distribution", "global_activity_heatmap",
     "user_time_series", "transfer_distribution", "activity_heatmap"}
\* The table the rendered output reads.
TableRead == IF fn \in GlobalOutputs THEN arg.g ELSE arg.u
IsPlaceholder(fig) ==
    /\ fig.placeholder
    /\ fig.annotation = "No data available"
    /\ fig.traces = <<>>

\* C12: an output computed from an empty table returns a value and does not
\* raise: a scalar summary returns "N/A" and a chart returns the placeholder
\* plot, whatever metric and window are selected.
C12_EmptyTableGivesNoData ==
    (fn \in ScalarOutputs \cup ChartOutputs /\ IsEmpty(TableRead)) =>
        /\ ret.kind = "returned"
        /\ fn \in ScalarOutputs => ret.value = <<"N", "/", "A">>
        /\ fn \in ChartOutputs => IsPlaceholder(ret.value)
\* The user time series rendered from an empty user table with a metric and a
\* window other than the defaults: the placeholder plot.
C12_Witness ==
    /\ fn = "user_time_series"
    /\ IsEmpty(arg.u)
    /\ arg.input.user_metric = "feesPaid"
    /\ arg.input.user_ma_window = 30
    /\ ret.kind = "returned"
    /\ IsPlaceholder(ret.value)

NoDataFound == [type |-> "warning", text |-> "No data found for this address"]
DataLoaded == [type |-> "message", text |-> "Data loaded successfully"]
\* The HTTP call of a lookup failed: no response carrying a list of rows.
FetchFailed(o) == o = TransportError

MaxTimeout == 3
MaxInterval == 2
PollTimes == {0, 1}
TxStatuses == {"PENDING", "NOT FOUND", "CONFIRMED"}

\* time.time() - start_time > timeout
TimedOut_at_deadline(d) == d.now - d.start_time >= d.timeout
TimedOut(d) == d.now - d.start_time > d.timeout

InitMonitor ==
    /\ fn = "none"
    /\ arg = <<>>
    /\ ret = NoCall
    /\ DashboardUnused
    /\ \E t \in 0..MaxTimeout, c \in 0..MaxInterval :
          deploy = [pc |-> "upload", timeout |-> t, check_interval |-> c, now |-> 0,
                    start_time |-> 0, status |-> "", polled |-> FALSE, last_poll |-> 0,
                    result |-> NoCall, report |-> "none"]

\* uploader.upload_data(...) and the test of result['success']; a successful
\* upload enters monitor_transaction, which reads the clock.
UploadData(success) ==
    /\ deploy.pc = "upload"
    /\ deploy' = IF success
                 THEN [deploy EXCEPT !.pc = "poll", !.start_time = deploy.now]
                 ELSE [deploy EXCEPT !.pc = "done", !.report = "failed"]
    /\ UNCHANGED <<pureVars, dashVars>>

\* status = transaction.get_status(): the query returns status s after d ticks.
GetStatus(s, d) ==
    /\ deploy.pc = "poll"
    /\ deploy' = [deploy EXCEPT !.pc = "decide", !.status = s, !.now = deploy.now + d,
                                !.polled = TRUE, !.last_poll = deploy.now + d]
    /\ UNCHANGED <<pureVars, dashVars>>

\* The two tests that follow a poll.
Decide ==
    /\ deploy.pc = "decide"
    /\ deploy' = IF deploy.status = "CONFIRMED"
                 THEN [deploy EXCEPT !.pc = "returned", !.result = Returned(TRUE)]
                 ELSE IF TimedOut(deploy)
                 THEN [deploy EXCEPT !.pc = "returned", !.result = Returned(FALSE)]
                 ELSE [deploy EXCEPT !.pc = "sleep"]
    /\ UNCHANGED <<pureVars, dashVars>>

\* time.sleep(check_interval)
Sleep ==
    /\ deploy.pc = "sleep"
    /\ deploy' = [deploy EXCEPT !.pc = "poll", !.now = deploy.now + deploy.check_interval]
    /\ UNCHANGED <<pureVars, dashVars>>

\* deploy_to_arweave reports what monitor_transaction returned.
ReportOutcome ==
    /\ deploy.pc = "returned"
    /\ deploy' = [deploy EXCEPT !.pc = "done",
                                !.report = IF deploy.result = Returned(TRUE)
                                           THEN "confirmed" ELSE "pending"]
    /\ UNCHANGED <<pureVars, dashVars>>

NextMonitor ==
    \/ \E success \in BOOLEAN : UploadData(success)
    \/ \E s \in TxStatuses, d \in PollTimes : GetStatus(s, d)
    \/ Decide
    \/ Sleep
    \/ ReportOutcome
SpecMonitor == InitMonitor /\ [][NextMonitor]_vars
\* Every step of the script is taken, status queries return, and time advances:
\* again and again a status query takes a tick.
FairMonitor ==
    /\ SpecMonitor
    /\ WF_vars(\E success \in BOOLEAN : UploadData(success))
    /\ WF_vars(\E s \in TxStatuses, d \in PollTimes : GetStatus(s, d))
    /\ SF_vars(\E s \in TxStatuses : GetStatus(s, 1))
    /\ WF_vars(Decide)
    /\ WF_vars(Sleep)
    /\ WF_vars(ReportOutcome)

Elapsed == deploy.now - deploy.start_time

\* C14: polling always ends, given that time advances and the status queries
\* return.  monitor_transaction returns True at the first poll that observes
\* CONFIRMED and False at the first poll that does not observe it after more
\* than timeout has elapsed, so it returns only after a poll, also with timeout
\* 0; a poll that is not the first follows the previous one by check_interval;
\* and a False is reported as pending, while a failure is reported only for an
\* upload that failed.
C14_PollingEnds ==
    /\ (deploy.pc = "poll") ~> (deploy.pc = "done")
    /\ [](deploy.result # NoCall =>
            /\ deploy.polled
            /\ deploy.result \in {Returned(TRUE), Returned(FALSE)})
    /\ [](deploy.result = Returned(TRUE) => deploy.status = "CONFIRMED")
    /\ [](deploy.result = Returned(FALSE) =>
            deploy.status # "CONFIRMED" /\ Elapsed > deploy.timeout)
    /\ [](deploy.pc = "sleep" => deploy.status # "CONFIRMED" /\ Elapsed <= deploy.timeout)
    /\ []((deploy.pc = "poll" /\ deploy.polled) =>
            deploy.now - deploy.last_poll = deploy.check_interval)
    /\ [](deploy.report = "pending" <=> (deploy.pc = "done" /\ deploy.result = Returned(FALSE)))
    /\ [](deploy.report = "confirmed" <=> (deploy.pc = "done" /\ deploy.result = Returned(TRUE)))
    /\ [](deploy.report = "failed" => deploy.result = NoCall /\ ~deploy.polled)
\* With timeout 0 and interval 2 the first poll found the transaction pending
\* before any time had elapsed, a later poll found it pending after the timeout,
\* and the deployment was reported as pending.
C14_Witness ==
    /\ deploy.pc = "done"
    /\ deploy.report = "pending"
    /\ deploy.timeout = 0
    /\ deploy.check_interval = 2
    /\ deploy.status = "PENDING"
    /\ Elapsed >= 2

\* The heatmap trace of the rendered figure; go.Heatmap draws z[i][j] in the row
\* labelled y[i] under the column label x[j].
HeatTrace == ret.value.figure.traces[1]
LabelledHour(j) == ParseDigits(HeatTrace.x[j])

\* C15: in both heatmaps the value drawn under hour label h on weekday d is the
\* aggregate of exactly the rows with weekday d and hour h, and every hour that
\* has counted rows is drawn under its own label, also when other hours of the
\* day have no row.
C15_LabelsAligned ==
    (HeatRendered /\ ~ret.value.figure.placeholder) =>
        /\ \A i \in 1..Len(HeatTrace.z) : \A j \in 1..Len(HeatTrace.z[i]) :
              HeatTrace.z[i][j] = ExpectedCell(HeatTrace.y[i], LabelledHour(j))
        /\ \A dh \in Cells :
              \E i \in 1..Len(HeatTrace.z) : \E j \in 1..Len(HeatTrace.z[i]) :
                  /\ HeatTrace.y[i] = dh[1]
                  /\ LabelledHour(j) = dh[2]

====
